---- MODULE Spec2Model ----
(***************************************************************************)
(* Model of guttenread_mcp/server.py: the search_gutenberg tool, its       *)
(* per-title coroutines on the asyncio event loop, the executor threads    *)
(* that run _search_gutendex, and the pure helpers _pick_best_text_format, *)
(* _download_text and _normalize_book.                                     *)
(*                                                                         *)
(* JSON / Python values are tagged records, one field name per type, so    *)
(* that values of different types can be compared:                         *)
(*   None  [t |-> "null"]            bool  [t |-> "bool",  b |-> TRUE]     *)
(*   int   [t |-> "int", n |-> 5]    float [t |-> "float", f |-> "1.5"]    *)
(*   str   [t |-> "str", s |-> "a"]  list  [t |-> "list",  xs |-> <<>>]    *)
(*   dict  [t |-> "dict", kv |-> << [k |-> "id", v |-> ...], ... >>]       *)
(* A dict keeps its entries in insertion order, as Python's dict does.     *)
(* A raised exception is [t |-> "raise", exc |-> "TypeError"].             *)
(***************************************************************************)
EXTENDS Integers, Sequences, FiniteSets, TLC

\* ------------------------------------------------------------------------
\* Python values
\* ------------------------------------------------------------------------
None == [t |-> "null"]
JBool(b) == [t |-> "bool", b |-> b]
JInt(n) == [t |-> "int", n |-> n]
JFloat(f) == [t |-> "float", f |-> f]
JStr(s) == [t |-> "str", s |-> s]
JList(xs) == [t |-> "list", xs |-> xs]
JDict(kv) == [t |-> "dict", kv |-> kv]
KV(k, v) == [k |-> k, v |-> v]
Raise(exc) == [t |-> "raise", exc |-> exc]

\* (stated on the fields, so that it can be asked of a dict built as a TLA+ record)
IsRaise(v) == "exc" \in DOMAIN v
IsStr(v) == v.t = "str"
IsList(v) == v.t = "list"
IsDict(v) == v.t = "dict"

\* isinstance(v, int): bool is a subclass of int in Python.
IsInstanceInt(v) == v.t \in {"int", "bool"}

\* Python truthiness (the `x or default` and `if x` tests).
Truthy(v) ==
  CASE v.t = "null" -> FALSE
    [] v.t = "bool" -> v.b
    [] v.t = "int" -> v.n # 0
    [] v.t = "float" -> v.f \notin {"0.0", "-0.0"}
    [] v.t = "str" -> Len(v.s) > 0
    [] v.t = "list" -> Len(v.xs) > 0
    [] v.t = "dict" -> Len(v.kv) > 0

\* `x or d`
Or(x, d) == IF Truthy(x) THEN x ELSE d

HasKey(d, key) == \E i \in 1..Len(d.kv) : d.kv[i].k = key

\* dict.get(key, default)
GetDefault(d, key, default) ==
  IF HasKey(d, key)
    THEN d.kv[CHOOSE i \in 1..Len(d.kv) : d.kv[i].k = key].v
    ELSE default

\* dict.get(key)
Get(d, key) == GetDefault(d, key, None)

\* ------------------------------------------------------------------------
\* Python str operations, on TLA+ strings
\* ------------------------------------------------------------------------
CharAt(s, i) == SubSeq(s, i, i)

\* The lower-case form of each upper-case letter.
LowerTable ==
  [ A |-> "a", B |-> "b", C |-> "c", D |-> "d", E |-> "e", F |-> "f", G |-> "g",
    H |-> "h", I |-> "i", J |-> "j", K |-> "k", L |-> "l", M |-> "m", N |-> "n",
    O |-> "o", P |-> "p", Q |-> "q", R |-> "r", S |-> "s", T |-> "t", U |-> "u",
    V |-> "v", W |-> "w", X |-> "x", Y |-> "y", Z |-> "z" ]

LowerChar(c) == IF c \in DOMAIN LowerTable THEN LowerTable[c] ELSE c

RECURSIVE Lower(_)
\* str.lower()
Lower(s) == IF Len(s) = 0 THEN "" ELSE LowerChar(Head(s)) \o Lower(Tail(s))

\* str.endswith(suffix)
EndsWith(s, suffix) ==
  /\ Len(s) >= Len(suffix)
  /\ SubSeq(s, Len(s) - Len(suffix) + 1, Len(s)) = suffix

\* str.startswith(prefix)
StartsWith(s, prefix) ==
  /\ Len(s) >= Len(prefix)
  /\ SubSeq(s, 1, Len(prefix)) = prefix

Whitespace == {" ", "\t", "\n", "\r"}

RECURSIVE LStrip(_)
LStrip(s) ==
  IF Len(s) > 0 /\ Head(s) \in Whitespace THEN LStrip(Tail(s)) ELSE s

RECURSIVE RStrip(_)
RStrip(s) ==
  IF Len(s) > 0 /\ CharAt(s, Len(s)) \in Whitespace
    THEN RStrip(SubSeq(s, 1, Len(s) - 1))
    ELSE s

\* str.strip()
Strip(s) == RStrip(LStrip(s))

\* Mutant of SliceTo: the limit is not applied.
SliceTo_NoLimit(xs, n) == xs

\* xs[:n] for a sequence or a string, with Python's negative-index meaning.
SliceTo(xs, n) ==
  IF n >= 0
    THEN SubSeq(xs, 1, IF n < Len(xs) THEN n ELSE Len(xs))
    ELSE SubSeq(xs, 1, IF Len(xs) + n > 0 THEN Len(xs) + n ELSE 0)

\* str(x) inside an f-string, for the values an id can take.
PyStr(v) ==
  CASE v.t = "int" -> ToString(v.n)
    [] v.t = "bool" -> IF v.b THEN "True" ELSE "False"
    [] v.t = "str" -> v.s
    [] v.t = "float" -> v.f
    [] v.t = "null" -> "None"

\* ------------------------------------------------------------------------
\* _pick_best_text_format
\* ------------------------------------------------------------------------
preferred_keys ==
  << "text/plain; charset=utf-8",
     "text/plain; charset=us-ascii",
     "text/plain",
     "text/html; charset=utf-8",
     "text/html" >>

\* Mutant of PreferredOk: without the truthiness test of line 55.
PreferredOk_AllowsEmpty(url) ==
  /\ IsStr(url)
  /\ ~EndsWith(Lower(url.s), ".zip")

\* The test of lines 55-57 on formats.get(key).
PreferredOk(url) ==
  /\ Truthy(url)
  /\ IsStr(url)
  /\ ~EndsWith(Lower(url.s), ".zip")

\* The test of lines 62-64 on an item (key, url) of formats.
FallbackOk(key, url) ==
  /\ IsStr(url)
  /\ StartsWith(key, "text/")
  /\ ~EndsWith(Lower(url.s), ".zip")

_pick_best_text_format(formats) ==
  IF ~Truthy(formats) THEN None
  ELSE IF ~IsDict(formats) THEN Raise("AttributeError")
  ELSE IF \E p \in 1..Len(preferred_keys) : PreferredOk(Get(formats, preferred_keys[p]))
    THEN LET p == CHOOSE q \in 1..Len(preferred_keys) :
                    /\ PreferredOk(Get(formats, preferred_keys[q]))
                    /\ \A r \in 1..(q - 1) : ~PreferredOk(Get(formats, preferred_keys[r]))
         IN  Get(formats, preferred_keys[p])
  ELSE IF \E i \in 1..Len(formats.kv) : FallbackOk(formats.kv[i].k, formats.kv[i].v)
    THEN LET i == CHOOSE j \in 1..Len(formats.kv) :
                    /\ FallbackOk(formats.kv[j].k, formats.kv[j].v)
                    /\ \A r \in 1..(j - 1) : ~FallbackOk(formats.kv[r].k, formats.kv[r].v)
         IN  formats.kv[i].v
  ELSE None

\* ------------------------------------------------------------------------
\* HTTP responses of the two remote collaborators (requests.get)
\*   [kind |-> "exc", msg |-> m]       requests.get raised (transport, timeout)
\*   [kind |-> "http", status |-> n, body |-> b]
\* with b = [json |-> FALSE, text |-> s] (not decodable as JSON)
\*   or b = [json |-> TRUE, data |-> v, text |-> s]
\* ------------------------------------------------------------------------
Exc(msg) == [kind |-> "exc", msg |-> msg]
Http(status, body) == [kind |-> "http", status |-> status, body |-> body]
TextBody(s) == [json |-> FALSE, text |-> s]
JsonBody(v) == [json |-> TRUE, data |-> v, text |-> "{..}"]

\* requests.get(...) followed by response.raise_for_status(): whether the
\* try block raises, and the message of the exception.
RequestRaises(resp) ==
  \/ resp.kind = "exc"
  \/ resp.kind = "http" /\ resp.status >= 400 /\ resp.status < 600

ExcStr(resp) ==
  IF resp.kind = "exc" THEN resp.msg ELSE ToString(resp.status) \o " Error"

\* ------------------------------------------------------------------------
\* _search_gutendex: (results, error), or the exception that escapes it
\* ------------------------------------------------------------------------
SearchResult(results, error) == [t |-> "tuple", results |-> results, error |-> error]

_search_gutendex(title, max_results, resp) ==
  IF RequestRaises(resp)
    THEN SearchResult(<<>>, JStr("HTTP error while querying Gutendex: " \o ExcStr(resp)))
  ELSE IF ~resp.body.json
    THEN SearchResult(<<>>, JStr("Failed to decode JSON response from Gutendex: Expecting value"))
  ELSE IF ~IsDict(resp.body.data)
    THEN Raise("AttributeError")
  ELSE LET results == GetDefault(resp.body.data, "results", JList(<<>>))
       IN  IF ~IsList(results)
             THEN SearchResult(<<>>, JStr("Unexpected Gutendex response format: 'results' is not a list"))
             ELSE SearchResult(SliceTo(results.xs, max_results), None)

\* ------------------------------------------------------------------------
\* _download_text: <<text_or_excerpt, error_message>>
\* ------------------------------------------------------------------------
\* Mutant of _download_text: without the `max_chars > 0` test of line 114.
_download_text_NoPositiveTest(url, max_chars, resp) ==
  IF RequestRaises(resp)
    THEN << None, JStr("HTTP error while downloading text: " \o ExcStr(resp)) >>
  ELSE LET text == resp.body.text
       IN  IF max_chars # None /\ Len(text) > max_chars.n
             THEN << JStr(SliceTo(text, max_chars.n)), None >>
             ELSE << JStr(text), None >>

\* Mutant of _download_text: a failed download returns an empty text with
\* the error message instead of None.
_download_text_EmptyOnError(url, max_chars, resp) ==
  IF RequestRaises(resp)
    THEN << JStr(""), JStr("HTTP error while downloading text: " \o ExcStr(resp)) >>
  ELSE LET text == resp.body.text
       IN  IF max_chars # None /\ max_chars.n > 0 /\ Len(text) > max_chars.n
             THEN << JStr(SliceTo(text, max_chars.n)), None >>
             ELSE << JStr(text), None >>

_download_text(url, max_chars, resp) ==
  IF RequestRaises(resp)
    THEN << None, JStr("HTTP error while downloading text: " \o ExcStr(resp)) >>
  ELSE LET text == resp.body.text
       IN  IF max_chars # None /\ max_chars.n > 0 /\ Len(text) > max_chars.n
             THEN << JStr(SliceTo(text, max_chars.n)), None >>
             ELSE << JStr(text), None >>

\* ------------------------------------------------------------------------
\* _normalize_book
\* ------------------------------------------------------------------------
\* Whether `for author in v` can iterate over v.
Iterable(v) == v.t \in {"list", "str", "dict"}

NormAuthor(author) ==
  JDict(<< KV("name", Get(author, "name")),
           KV("birth_year", Get(author, "birth_year")),
           KV("death_year", Get(author, "death_year")) >>)

RECURSIVE MapAuthors(_)
MapAuthors(xs) ==
  IF xs = <<>> THEN <<>>
  ELSE IF IsDict(Head(xs)) THEN << NormAuthor(Head(xs)) >> \o MapAuthors(Tail(xs))
  ELSE MapAuthors(Tail(xs))

\* Lines 135-146: the authors list, or the TypeError of iterating a number.
AuthorsOf(book) ==
  LET raw_authors == Or(Get(book, "authors"), JList(<<>>))
  IN  IF ~Iterable(raw_authors) THEN Raise("TypeError")
      ELSE IF IsList(raw_authors) THEN JList(MapAuthors(raw_authors.xs))
      ELSE JList(<<>>)

\* Lines 148-151.
GutenbergUrl(book_id) ==
  IF IsInstanceInt(book_id)
    THEN JStr("https://www.gutenberg.org/ebooks/" \o PyStr(book_id))
    ELSE None

\* Line 132 and line 153.
TextUrlOf(book) == _pick_best_text_format(Or(Get(book, "formats"), JDict(<<>>)))

\* Whether _normalize_book raises (before it reaches the download).
NormalizeRaises(book) == IsRaise(AuthorsOf(book)) \/ IsRaise(TextUrlOf(book))

\* Line 157: whether _normalize_book calls _download_text.
NeedsDownload(book, download_text) ==
  /\ ~NormalizeRaises(book)
  /\ download_text
  /\ Truthy(TextUrlOf(book))

\* resp is the remote's answer to the download request, read only when
\* line 158 is reached.
_normalize_book(book, download_text, max_chars, resp) ==
  IF NormalizeRaises(book)
    THEN Raise(IF IsRaise(AuthorsOf(book)) THEN "TypeError" ELSE "AttributeError")
  ELSE
    LET text_url == TextUrlOf(book)
        dl == IF download_text /\ Truthy(text_url)
                THEN _download_text(text_url.s, max_chars, resp)
                ELSE << None, None >>
        text == dl[1]
        text_error == dl[2]
        normalized ==
          [ id |-> Get(book, "id"),
            title |-> Get(book, "title"),
            authors |-> AuthorsOf(book),
            languages |-> Or(Get(book, "languages"), JList(<<>>)),
            download_count |-> Get(book, "download_count"),
            subjects |-> Or(Get(book, "subjects"), JList(<<>>)),
            bookshelves |-> Or(Get(book, "bookshelves"), JList(<<>>)),
            copyright |-> Get(book, "copyright"),
            gutenberg_url |-> GutenbergUrl(Get(book, "id")),
            text_url |-> text_url ]
    IN  IF ~download_text THEN normalized
        ELSE IF Truthy(text_error)
          THEN ("text" :> text) @@ ("text_error" :> text_error) @@ normalized
          ELSE ("text" :> text) @@ normalized

\* ------------------------------------------------------------------------
\* Bounds and the values the environment supplies
\* ------------------------------------------------------------------------
MaxTitles == 2

\* Sequences over S of length at most n.
SeqsUpTo(S, n) == UNION { [1..k -> S] : k \in 0..n }

TitlePool == { " ", "a", " b " }

\* The `titles` argument: a list of strings, or (a caller's mistake) a str.
TitlesArgs ==
  { JList(ts) : ts \in SeqsUpTo({ JStr(s) : s \in TitlePool }, MaxTitles) }
    \cup { JStr("a") }

MaxResultsArgs == { 0, 2 }
MaxCharsArgs == { None, JInt(2) }

GoodBook ==
  JDict(<< KV("id", JInt(1661)),
           KV("title", JStr("Sherlock")),
           KV("authors", JList(<< JDict(<< KV("name", JStr("Doyle")) >>) >>)),
           KV("formats", JDict(<< KV("text/plain; charset=utf-8", JStr("http://g/1661.txt")) >>)) >>)
HtmlBook ==
  JDict(<< KV("id", JInt(84)),
           KV("formats", JDict(<< KV("text/html", JStr("http://g/84.html")) >>)) >>)
BareBook == JDict(<< KV("id", JInt(11)), KV("title", JStr("Alice")) >>)
NotABook == JStr("oops")
BadAuthorsBook == JDict(<< KV("id", JInt(5)), KV("authors", JInt(5)) >>)

\* The `results` arrays the search endpoint may send.
RawResultLists ==
  { << GoodBook >>,
    << NotABook, BareBook >>,
    << GoodBook, HtmlBook, NotABook >>,
    << BadAuthorsBook >> }

\* What the search endpoint may answer to one request.
SearchResponses ==
  { Exc("timeout"),
    Http(404, TextBody("Not Found")),
    Http(200, TextBody("<html>")),
    Http(200, JsonBody(JList(<<>>))),
    Http(200, JsonBody(JDict(<< KV("results", JStr("none")) >>))),
    Http(200, JsonBody(JDict(<< KV("count", JInt(0)) >>))) }
  \cup { Http(200, JsonBody(JDict(<< KV("results", JList(rs)) >>))) : rs \in RawResultLists }

\* What a text URL may answer to one request.
DownloadResponses == { Exc("timeout"), Http(200, TextBody("abc")) }

\* The argument of _normalize_book's resp when no download is made.
NoResponse == Exc("unused")

\* ------------------------------------------------------------------------
\* State
\* ------------------------------------------------------------------------
VARIABLES
  titles,                 \* argument
  arg_max_results,        \* argument max_results_per_title, as passed
  download_text,          \* argument
  max_chars,              \* argument
  max_results_per_title,  \* the local, reassigned at line 242
  pc,                     \* search_gutenberg: "call", "gather", "returned", "raised"
  cleaned_titles,
  tasks,                  \* one handle_single_title coroutine per cleaned title
  loop_thread,            \* the task whose blocking call holds the event loop's thread, or 0
  response,               \* the value returned, once pc = "returned"
  completed,              \* history: the tasks that returned, in the order they did
  probe                   \* input and output of a helper applied on its own

vars == << titles, arg_max_results, download_text, max_chars, max_results_per_title,
           pc, cleaned_titles, tasks, loop_thread, response, completed, probe >>

args == << titles, arg_max_results, download_text, max_chars >>

NoProbe == [fn |-> "none"]

NewTask(q) ==
  [ pc |-> "new", q |-> q, resp |-> None, fut |-> None,
    raw_results |-> <<>>, error |-> None, idx |-> 1, match_dicts |-> <<>>,
    entry |-> None, searches |-> 0, downloads |-> 0 ]

Init ==
  /\ titles \in TitlesArgs
  /\ arg_max_results \in MaxResultsArgs
  /\ download_text \in BOOLEAN
  /\ max_chars \in MaxCharsArgs
  /\ max_results_per_title = arg_max_results
  /\ pc = "call"
  /\ cleaned_titles = <<>>
  /\ tasks = <<>>
  /\ loop_thread = 0
  /\ response = None
  /\ completed = <<>>
  /\ probe = NoProbe

\* ------------------------------------------------------------------------
\* search_gutenberg, lines 234-246 and 268: up to the await of gather
\* ------------------------------------------------------------------------
RECURSIVE CleanTitles_NoStrip(_)
\* Mutant of CleanTitles: the titles are not stripped before the emptiness test.
CleanTitles_NoStrip(ts) ==
  IF ts = <<>> THEN <<>>
  ELSE LET t == PyStr(Head(ts))
       IN  IF Len(t) > 0 THEN << t >> \o CleanTitles_NoStrip(Tail(ts))
           ELSE CleanTitles_NoStrip(Tail(ts))

RECURSIVE CleanTitles(_)
\* Line 237: [t for t in (str(t).strip() for t in titles) if t]
CleanTitles(ts) ==
  IF ts = <<>> THEN <<>>
  ELSE LET t == Strip(PyStr(Head(ts)))
       IN  IF Len(t) > 0 THEN << t >> \o CleanTitles(Tail(ts)) ELSE CleanTitles(Tail(ts))

\* Mutant of ClampMaxResults: the limit is used as passed.
ClampMaxResults_NoClamp(n) == n

\* Lines 241-242.
ClampMaxResults(n) == IF n <= 0 THEN 1 ELSE n

Call ==
  /\ pc = "call"
  /\ IF ~IsList(titles)
       THEN /\ pc' = "raised"
            /\ UNCHANGED << cleaned_titles, max_results_per_title, tasks, response >>
     ELSE IF CleanTitles(titles.xs) = <<>>
       THEN /\ cleaned_titles' = <<>>
            /\ response' = [results |-> <<>>]
            /\ pc' = "returned"
            /\ UNCHANGED << max_results_per_title, tasks >>
     ELSE /\ cleaned_titles' = CleanTitles(titles.xs)
          /\ max_results_per_title' = ClampMaxResults(max_results_per_title)
          /\ tasks' = [i \in 1..Len(cleaned_titles') |-> NewTask(cleaned_titles'[i])]
          /\ pc' = "gather"
          /\ UNCHANGED response
  /\ UNCHANGED << args, loop_thread, completed, probe >>

\* ------------------------------------------------------------------------
\* handle_single_title
\* ------------------------------------------------------------------------
\* Line 250, first half: the coroutine's first step hands _search_gutendex to
\* the executor and suspends. gather's tasks take their first step in the
\* order they were created. The default executor has at least 5 worker
\* threads, more than MaxTitles, so a worker starts the request at once.
TaskStart(i) ==
  /\ pc \in {"gather", "raised"}
  /\ loop_thread = 0
  /\ tasks[i].pc = "new"
  /\ \A j \in 1..(i - 1) : tasks[j].pc # "new"
  /\ tasks' = [tasks EXCEPT ![i].pc = "searching", ![i].searches = @ + 1]
  /\ UNCHANGED << args, max_results_per_title, pc, cleaned_titles, loop_thread,
                  response, completed, probe >>

\* The worker thread: _search_gutendex returns or raises, which completes
\* the future the coroutine awaits.
SearchReturn(i, resp) ==
  /\ tasks[i].pc = "searching"
  /\ tasks' = [tasks EXCEPT
       ![i].pc = "ready",
       ![i].resp = resp,
       ![i].fut = _search_gutendex(tasks[i].q, max_results_per_title, resp)]
  /\ UNCHANGED << args, max_results_per_title, pc, cleaned_titles, loop_thread,
                  response, completed, probe >>

\* Mutant of Entry: the error key is set even when error is None.
Entry_AlwaysError(q, match_dicts, error) ==
  [query |-> q, matches |-> match_dicts, error |-> error]

\* Lines 259-266.
Entry(q, match_dicts, error) ==
  IF Truthy(error)
    THEN [query |-> q, matches |-> match_dicts, error |-> error]
    ELSE [query |-> q, matches |-> match_dicts]

RECURSIVE Run(_)
\* Lines 253-266, run on the event loop's thread from book idx on, until the
\* coroutine returns, raises, or blocks in the download of line 158.
Run(t) ==
  IF t.idx > Len(t.raw_results)
    THEN [t EXCEPT !.pc = "done", !.entry = Entry(t.q, t.match_dicts, t.error)]
  ELSE LET book == t.raw_results[t.idx]
       IN  IF ~IsDict(book) THEN Run([t EXCEPT !.idx = @ + 1])
           ELSE IF NormalizeRaises(book) THEN [t EXCEPT !.pc = "raised"]
           ELSE IF NeedsDownload(book, download_text)
             THEN [t EXCEPT !.pc = "downloading", !.downloads = @ + 1]
           ELSE Run([t EXCEPT
                  !.match_dicts = Append(@, _normalize_book(book, download_text, max_chars, NoResponse)),
                  !.idx = @ + 1])

\* What a step of task i on the loop's thread leaves behind.
AfterStep(i, t) ==
  /\ tasks' = [tasks EXCEPT ![i] = t]
  /\ loop_thread' = IF t.pc = "downloading" THEN i ELSE 0
  /\ completed' = IF t.pc = "done" THEN Append(completed, i) ELSE completed

\* Line 250, second half: the await returns (or re-raises) on the loop's
\* thread, and the coroutine runs on. The loop wakes the coroutines in the
\* order their futures completed; here any ready coroutine may be next,
\* which allows every order the loop can produce.
Resume(i) ==
  /\ loop_thread = 0
  /\ tasks[i].pc = "ready"
  /\ \A j \in 1..Len(tasks) : tasks[j].pc # "new"
  /\ IF IsRaise(tasks[i].fut)
       THEN AfterStep(i, [tasks[i] EXCEPT !.pc = "raised"])
       ELSE AfterStep(i, Run([tasks[i] EXCEPT
              !.raw_results = tasks[i].fut.results,
              !.error = tasks[i].fut.error]))
  /\ UNCHANGED << args, max_results_per_title, pc, cleaned_titles, response, probe >>

\* Line 158 inside line 257: requests.get returns or raises, on the loop's
\* own thread; _normalize_book finishes and the loop over books goes on.
DownloadReturn(i, resp) ==
  /\ loop_thread = i
  /\ tasks[i].pc = "downloading"
  /\ AfterStep(i, Run([tasks[i] EXCEPT
       !.pc = "running",
       !.match_dicts = Append(@, _normalize_book(tasks[i].raw_results[tasks[i].idx],
                                                 download_text, max_chars, resp)),
       !.idx = @ + 1]))
  /\ UNCHANGED << args, max_results_per_title, pc, cleaned_titles, response, probe >>

\* ------------------------------------------------------------------------
\* search_gutenberg, lines 269-272: gather completes
\* ------------------------------------------------------------------------
\* A task's exception reaches the awaiting caller; the other tasks are not
\* cancelled by gather.
GatherRaise ==
  /\ pc = "gather"
  /\ loop_thread = 0
  /\ \E i \in 1..Len(tasks) : tasks[i].pc = "raised"
  /\ pc' = "raised"
  /\ UNCHANGED << args, max_results_per_title, cleaned_titles, tasks, loop_thread,
                  response, completed, probe >>

\* Mutant of GatherResults: the entries in the order the tasks finished
\* (what collecting with as_completed would give).
GatherResults_AsCompleted(ts, finished) == [k \in 1..Len(ts) |-> ts[finished[k]].entry]

\* Lines 268-270: gather's list holds the tasks' results in the order the
\* coroutines were passed, whatever order they finished in.
GatherResults(ts, finished) == [i \in 1..Len(ts) |-> ts[i].entry]

GatherReturn ==
  /\ pc = "gather"
  /\ loop_thread = 0
  /\ \A i \in 1..Len(tasks) : tasks[i].pc = "done"
  /\ response' = [results |-> GatherResults(tasks, completed)]
  /\ pc' = "returned"
  /\ UNCHANGED << args, max_results_per_title, cleaned_titles, tasks, loop_thread,
                  completed, probe >>

Next ==
  \/ Call
  \/ \E i \in 1..Len(tasks) : TaskStart(i)
  \/ \E i \in 1..Len(tasks) : \E resp \in SearchResponses : SearchReturn(i, resp)
  \/ \E i \in 1..Len(tasks) : Resume(i)
  \/ \E i \in 1..Len(tasks) : \E resp \in DownloadResponses : DownloadReturn(i, resp)
  \/ GatherRaise
  \/ GatherReturn

Spec == Init /\ [][Next]_vars

\* ------------------------------------------------------------------------
\* The helpers applied on their own: probe holds one call's arguments and,
\* once the call has been made, its result. No search_gutenberg call runs.
\* ------------------------------------------------------------------------
Pending == [t |-> "pending"]

NoCall ==
  /\ titles = JList(<<>>)
  /\ arg_max_results = 3
  /\ download_text = FALSE
  /\ max_chars = JInt(20000)
  /\ max_results_per_title = 3
  /\ pc = "off"
  /\ cleaned_titles = <<>>
  /\ tasks = <<>>
  /\ loop_thread = 0
  /\ response = None
  /\ completed = <<>>

UnchangedCall ==
  UNCHANGED << titles, arg_max_results, download_text, max_chars, max_results_per_title,
               pc, cleaned_titles, tasks, loop_thread, response, completed >>

\* --- _pick_best_text_format on every small formats mapping ---
MaxFormats == 2

FormatKeys ==
  { "text/plain; charset=utf-8", "text/plain", "text/html",
    "text/x-rst", "application/epub+zip" }

FormatUrls ==
  { JStr("http://g/a.txt"), JStr("http://g/b.htm"), JStr("http://g/C.ZIP"),
    JStr(""), None, JInt(7) }

\* The mappings with at most MaxFormats entries, in every insertion order.
FormatsPool ==
  { JDict(kv) : kv \in
      { e \in SeqsUpTo({ KV(k, u) : k \in FormatKeys, u \in FormatUrls }, MaxFormats) :
          \A i, j \in 1..Len(e) : i # j => e[i].k # e[j].k } }

InitPick ==
  /\ NoCall
  /\ \E f \in FormatsPool : probe = [fn |-> "pick", formats |-> f, out |-> Pending]

ApplyPick ==
  /\ probe.fn = "pick"
  /\ probe.out = Pending
  /\ probe' = [probe EXCEPT !.out = _pick_best_text_format(probe.formats)]
  /\ UnchangedCall

SpecPick == InitPick /\ [][ApplyPick]_vars

\* --- _normalize_book on raw records with missing and wrong-typed fields ---
IdValues ==
  { KV("id", v) : v \in { JInt(1661), JStr("1661"), JBool(TRUE), JBool(FALSE),
                          None, JFloat("1.5") } }

AuthorsValues ==
  { KV("authors", v) : v \in
      { JList(<< JDict(<< KV("name", JStr("Doyle")), KV("birth_year", JInt(1859)) >>),
                 JStr("anon") >>),
        JInt(5), JStr("Doyle"), None } }

FormatsValues ==
  { KV("formats", v) : v \in
      { JDict(<< KV("text/plain", JStr("http://g/a.txt")) >>),
        JDict(<< KV("text/plain", JStr("")) >>),
        JDict(<< KV("application/pdf", JStr("http://g/a.pdf")) >>),
        JList(<< JStr("http://g/a.txt") >>),
        JList(<<>>) } }

LanguagesValues == { KV("languages", v) : v \in { JList(<< JStr("en") >>), JInt(7) } }

\* A field is present with one of its values, or missing.
Optional(S) == { << e >> : e \in S } \cup { <<>> }

BookPool ==
  { JDict(a \o b \o c \o d) :
      a \in Optional(IdValues), b \in Optional(AuthorsValues),
      c \in Optional(FormatsValues), d \in Optional(LanguagesValues) }

TextResponses ==
  { Exc("timeout"), Http(404, TextBody("Not Found")),
    Http(200, TextBody("abc")), Http(200, TextBody("")) }

InitNormalize ==
  /\ NoCall
  /\ \E book \in BookPool, dl \in BOOLEAN, mc \in MaxCharsArgs, resp \in TextResponses :
       /\ (~NeedsDownload(book, dl)) => (resp = Exc("timeout") /\ mc = None)
       /\ probe = [fn |-> "normalize", book |-> book, download_text |-> dl,
                   max_chars |-> mc, resp |-> resp, out |-> Pending]

ApplyNormalize ==
  /\ probe.fn = "normalize"
  /\ probe.out = Pending
  /\ probe' = [probe EXCEPT !.out =
       _normalize_book(probe.book, probe.download_text, probe.max_chars, probe.resp)]
  /\ UnchangedCall

SpecNormalize == InitNormalize /\ [][ApplyNormalize]_vars

\* --- _download_text on every short body and every max_chars around it ---
MaxBody == 3

BodyAlphabet == { "a", "b" }

RECURSIVE StringsOfLen(_)
StringsOfLen(n) ==
  IF n = 0 THEN { "" }
  ELSE { s \o c : s \in StringsOfLen(n - 1), c \in BodyAlphabet }

Bodies == UNION { StringsOfLen(n) : n \in 0..MaxBody }

MaxCharsPool == { None } \cup { JInt(n) : n \in (-1)..(MaxBody + 1) }

BodyResponses ==
  { Http(200, TextBody(b)) : b \in Bodies }
    \cup { Exc("timeout"), Http(404, TextBody("Not Found")) }

InitDownload ==
  /\ NoCall
  /\ \E mc \in MaxCharsPool, resp \in BodyResponses :
       probe = [fn |-> "download", url |-> "http://g/a.txt", max_chars |-> mc,
                resp |-> resp, out |-> Pending]

ApplyDownload ==
  /\ probe.fn = "download"
  /\ probe.out = Pending
  /\ LET r == _download_text(probe.url, probe.max_chars, probe.resp)
     IN  probe' = [probe EXCEPT !.out = [text |-> r[1], text_error |-> r[2]]]
  /\ UnchangedCall

SpecDownload == InitDownload /\ [][ApplyDownload]_vars

\* ========================================================================
\* Claims
\* ========================================================================
Tasks == 1..Len(tasks)

\* A search response that is a failure of the search: transport error,
\* non-2xx status, undecodable body, or a decoded body that is not an object
\* or whose results field is not a list.
SearchFailed(resp) ==
  \/ resp.kind = "exc"
  \/ resp.status < 200
  \/ resp.status > 299
  \/ ~resp.body.json
  \/ ~IsDict(resp.body.data)
  \/ HasKey(resp.body.data, "results") /\ ~IsList(Get(resp.body.data, "results"))

\* The task has received its search response.
Answered(i) == tasks[i].pc \in {"ready", "downloading", "done", "raised"}

\* ------------------------------------------------------------------------
\* C1. Whatever order the per-query searches complete in, a returned
\* response has exactly one result per cleaned title (each title trimmed,
\* the empty ones dropped, duplicates kept), and results[i].query is the
\* i-th cleaned title: input order, not completion order.
\* ------------------------------------------------------------------------
C1_Trimmed == [i \in 1..Len(titles.xs) |-> Strip(titles.xs[i].s)]
C1_Cleaned == SelectSeq(C1_Trimmed, LAMBDA t : t # "")

C1_ResultsInInputOrder ==
  pc = "returned" =>
    /\ Len(response.results) = Len(C1_Cleaned)
    /\ \A i \in 1..Len(C1_Cleaned) : response.results[i].query = C1_Cleaned[i]

\* A response whose second query finished first, with two different
\* queries, one of which had to be trimmed.
C1_Witness ==
  /\ pc = "returned"
  /\ completed = << 2, 1 >>
  /\ response.results[1].query # response.results[2].query
  /\ \E i \in 1..2 : titles.xs[i].s # response.results[i].query

\* ------------------------------------------------------------------------
\* C2. With titles a list, search_gutenberg never raises to its caller
\* because of a search outcome: a query whose search response is a failure
\* (transport error, non-2xx, undecodable, body not an object, results not
\* a list) ends with an entry holding an error string and no matches, and a
\* query whose search did not fail ends with an entry without error.
\* ------------------------------------------------------------------------
C2_SearchOutcomeNeverRaises ==
  /\ (pc = "raised" /\ IsList(titles)) =>
       \E i \in Tasks : tasks[i].pc = "raised" /\ ~SearchFailed(tasks[i].resp)
  /\ \A i \in Tasks :
       (tasks[i].pc = "done" /\ SearchFailed(tasks[i].resp)) =>
         /\ "error" \in DOMAIN tasks[i].entry
         /\ IsStr(tasks[i].entry.error)
         /\ tasks[i].entry.matches = <<>>
  /\ \A i \in Tasks :
       (tasks[i].pc = "done" /\ ~SearchFailed(tasks[i].resp)) =>
         "error" \notin DOMAIN tasks[i].entry

\* ------------------------------------------------------------------------
\* C3. _normalize_book does not raise on an object-shaped record whose
\* fields are missing or of an unexpected type: it returns a match with
\* the field degraded to null/empty; with authors, languages and formats
\* missing the match has authors [], languages [] and text_url null.
\* ------------------------------------------------------------------------
C3_Applied == probe.fn = "normalize" /\ probe.out # Pending

C3_NormalizeNeverRaises ==
  C3_Applied =>
    /\ ~IsRaise(probe.out)
    /\ IsList(probe.out.authors)
    /\ IsList(probe.out.languages)
    /\ probe.out.text_url = None \/ IsStr(probe.out.text_url)
    /\ (/\ ~HasKey(probe.book, "authors")
        /\ ~HasKey(probe.book, "languages")
        /\ ~HasKey(probe.book, "formats")) =>
         /\ probe.out.authors = JList(<<>>)
         /\ probe.out.languages = JList(<<>>)
         /\ probe.out.text_url = None

\* ------------------------------------------------------------------------
\* C4. With two or more queries, no query's blocking remote call is
\* serialized behind another's: while query i is blocked in its search or
\* in a text download, no other query whose next step is a remote call is
\* kept from making it.
\* ------------------------------------------------------------------------
InRemoteCall(i) == tasks[i].pc \in {"searching", "downloading"}

\* Task j has its search result and would start a text download as soon as
\* it ran, but cannot run: task i's blocking call holds the loop's thread.
DownloadWaitsBehind(j, i) ==
  /\ tasks[j].pc = "ready"
  /\ ~IsRaise(tasks[j].fut)
  /\ Run([tasks[j] EXCEPT !.raw_results = tasks[j].fut.results]).pc = "downloading"
  /\ loop_thread = i

C4_NoCallSerializedBehindAnother ==
  \A i, j \in Tasks :
    (i # j /\ InRemoteCall(i)) => ~DownloadWaitsBehind(j, i)

\* ------------------------------------------------------------------------
\* C5. With download_text true a returned match has exactly one of three
\* shapes.  As claimed: download succeeded, a text key and no text_error
\* key; download failed, a text_error key and no text key; no text_url
\* resolved, neither key.
\* As amended: the text key is always there; download succeeded, text is a
\* string and there is no text_error key; download failed, text is null and
\* text_error is a string; no download was made (text_url null or empty),
\* text is null and there is no text_error key.
\* ------------------------------------------------------------------------
C5_Match == C3_Applied /\ probe.download_text /\ ~IsRaise(probe.out)

\* A download is made for a match exactly when it has a text_url to fetch.
C5_Downloaded == IsStr(probe.out.text_url) /\ probe.out.text_url.s # ""
C5_Succeeded == C5_Downloaded /\ ~RequestRaises(probe.resp)
C5_Failed == C5_Downloaded /\ RequestRaises(probe.resp)

C5_ThreeShapesAsClaimed ==
  C5_Match =>
    /\ C5_Succeeded =>
         ("text" \in DOMAIN probe.out /\ "text_error" \notin DOMAIN probe.out)
    /\ C5_Failed =>
         ("text_error" \in DOMAIN probe.out /\ "text" \notin DOMAIN probe.out)
    /\ ~C5_Downloaded =>
         ("text" \notin DOMAIN probe.out /\ "text_error" \notin DOMAIN probe.out)

C5_ThreeShapes ==
  C5_Match =>
    /\ "text" \in DOMAIN probe.out
    /\ C5_Succeeded =>
         (IsStr(probe.out.text) /\ "text_error" \notin DOMAIN probe.out)
    /\ C5_Failed =>
         /\ probe.out.text = None
         /\ "text_error" \in DOMAIN probe.out
         /\ IsStr(probe.out.text_error)
    /\ ~C5_Downloaded =>
         (probe.out.text = None /\ "text_error" \notin DOMAIN probe.out)

\* A match whose download failed.
C5_Witness == C5_Match /\ C5_Failed /\ probe.out.text = None

\* ------------------------------------------------------------------------
\* C6. In every QueryResult of every response, matches is a list, never
\* null; it is empty whenever the error key is present; and the error key
\* is present exactly when that query's own search failed, so a failed and
\* a successful query both appear, each with its own outcome.
\* ------------------------------------------------------------------------
C6_MatchesListErrorOnlyOnFailure ==
  pc = "returned" =>
    \A i \in 1..Len(response.results) :
      LET r == response.results[i]
      IN  /\ "matches" \in DOMAIN r
          /\ DOMAIN r.matches = 1..Len(r.matches)   \* a list, not None
          /\ "error" \in DOMAIN r => r.matches = <<>>
          /\ "error" \in DOMAIN r <=> SearchFailed(tasks[i].resp)

\* One query's search failed and the other's succeeded with matches.
C6_Witness ==
  /\ pc = "returned"
  /\ Len(response.results) = 2
  /\ "error" \in DOMAIN response.results[1]
  /\ response.results[1].matches = <<>>
  /\ "error" \notin DOMAIN response.results[2]
  /\ response.results[2].matches # <<>>

\* ------------------------------------------------------------------------
\* C7. _pick_best_text_format on a formats mapping returns the URL under
\* the first of the five preferred keys whose value qualifies; else the URL
\* of the first entry, in the mapping's order, whose key starts with text/
\* and whose URL is a string not ending in .zip; else null.
\* As claimed, a value qualifies when it is present, non-null, a string and
\* does not end in .zip.  As amended, it must also be non-empty.  (.zip is
\* matched whatever the case of its letters, in both readings.)
\* ------------------------------------------------------------------------
C7_Keys ==
  << "text/plain; charset=utf-8", "text/plain; charset=us-ascii", "text/plain",
     "text/html; charset=utf-8", "text/html" >>

C7_Zip(url) == EndsWith(Lower(url.s), ".zip")

C7_QualifiesAsClaimed(f, key) ==
  HasKey(f, key) /\ Get(f, key) # None /\ IsStr(Get(f, key)) /\ ~C7_Zip(Get(f, key))

C7_Qualifies(f, key) == C7_QualifiesAsClaimed(f, key) /\ Get(f, key).s # ""

C7_FallbackQualifies(e) == StartsWith(e.k, "text/") /\ IsStr(e.v) /\ ~C7_Zip(e.v)

C7_Expected(f, Q(_, _)) ==
  LET P == { p \in 1..Len(C7_Keys) : Q(f, C7_Keys[p]) }
      E == { i \in 1..Len(f.kv) : C7_FallbackQualifies(f.kv[i]) }
  IN  IF P # {} THEN Get(f, C7_Keys[CHOOSE p \in P : \A q \in P : p <= q])
      ELSE IF E # {} THEN f.kv[CHOOSE i \in E : \A j \in E : i <= j].v
      ELSE None

C7_Applied == probe.fn = "pick" /\ probe.out # Pending

C7_PickAsClaimed ==
  C7_Applied => probe.out = C7_Expected(probe.formats, C7_QualifiesAsClaimed)

C7_PickNonEmptyPreferred ==
  C7_Applied => probe.out = C7_Expected(probe.formats, C7_Qualifies)

\* An empty URL under the first preferred key is passed over for the URL
\* under a later preferred key.
C7_Witness ==
  /\ C7_Applied
  /\ Get(probe.formats, "text/plain; charset=utf-8") = JStr("")
  /\ Get(probe.formats, "text/html") = JStr("http://g/b.htm")
  /\ probe.out = JStr("http://g/b.htm")

\* ------------------------------------------------------------------------
\* C8. The match's gutenberg_url is non-null if and only if the record's
\* id is an integer, and then it is https://www.gutenberg.org/ebooks/
\* followed by that integer; for a missing id or an id of another type
\* (string, boolean, null, float) it is null.
\* ------------------------------------------------------------------------
C8_GutenbergUrlIffIntegerId ==
  (C3_Applied /\ ~IsRaise(probe.out)) =>
    LET id == Get(probe.book, "id")
    IN  /\ probe.out.gutenberg_url # None <=> id.t = "int"
        /\ id.t = "int" =>
             probe.out.gutenberg_url =
               JStr("https://www.gutenberg.org/ebooks/" \o ToString(id.n))

\* ------------------------------------------------------------------------
\* C9. For a query whose search succeeds, with n = max_results_per_title
\* (1 when it is <= 0), matches is the normalization of the object-shaped
\* records among the first n raw results, in the server's order: a skipped
\* record is not replaced by a later one, so there are at most n matches.
\* ------------------------------------------------------------------------
C9_N == IF arg_max_results <= 0 THEN 1 ELSE arg_max_results

C9_Raw(i) == GetDefault(tasks[i].resp.body.data, "results", JList(<<>>)).xs

C9_FirstN(i) ==
  SubSeq(C9_Raw(i), 1, IF Len(C9_Raw(i)) < C9_N THEN Len(C9_Raw(i)) ELSE C9_N)

C9_Kept(i) == SelectSeq(C9_FirstN(i), IsDict)

\* A match without the keys the download adds.
C9_Metadata(m) == [k \in DOMAIN m \ {"text", "text_error"} |-> m[k]]

C9_MatchesAreFirstNObjects ==
  pc = "returned" =>
    \A i \in 1..Len(response.results) :
      ~SearchFailed(tasks[i].resp) =>
        LET ms == response.results[i].matches
        IN  /\ Len(ms) = Len(C9_Kept(i))
            /\ Len(ms) <= C9_N
            /\ \A k \in 1..Len(ms) :
                 C9_Metadata(ms[k]) = _normalize_book(C9_Kept(i)[k], FALSE, None, NoResponse)

\* max_results_per_title <= 0, and a search whose first raw result is not
\* an object and whose second is: the response has no match for it.
C9_Witness ==
  /\ pc = "returned"
  /\ arg_max_results <= 0
  /\ \E i \in 1..Len(response.results) :
       /\ ~SearchFailed(tasks[i].resp)
       /\ Len(C9_Raw(i)) > 1
       /\ ~IsDict(C9_Raw(i)[1])
       /\ IsDict(C9_Raw(i)[2])
       /\ response.results[i].matches = <<>>

\* ------------------------------------------------------------------------
\* C10. When titles is a list that is empty or whose every element is
\* empty after trimming, search_gutenberg returns {results: []} and makes
\* no remote call, whatever the other arguments are.
\* ------------------------------------------------------------------------
C10_AllBlank ==
  IsList(titles) /\ \A i \in 1..Len(titles.xs) : Strip(titles.xs[i].s) = ""

RECURSIVE RemoteCalls(_)
\* The remote calls (searches and downloads) the tasks ts have issued.
RemoteCalls(ts) ==
  IF ts = <<>> THEN 0
  ELSE Head(ts).searches + Head(ts).downloads + RemoteCalls(Tail(ts))

C10_BlankTitlesNoRemoteCall ==
  (pc \notin {"call", "off"} /\ C10_AllBlank) =>
    /\ pc = "returned"
    /\ response = [results |-> <<>>]
    /\ RemoteCalls(tasks) = 0

\* A call with two blank titles, asked to download texts, has returned.
C10_Witness ==
  /\ pc = "returned"
  /\ C10_AllBlank
  /\ Len(titles.xs) = 2
  /\ download_text
  /\ arg_max_results <= 0
  /\ response = [results |-> <<>>]

\* ------------------------------------------------------------------------
\* C11. For a successfully downloaded body: if max_chars is a positive
\* integer the returned text is exactly the first min(max_chars, len(body))
\* characters of the body; if max_chars is null, zero or negative it is the
\* whole body.
\* ------------------------------------------------------------------------
C11_Downloaded ==
  probe.fn = "download" /\ probe.out # Pending /\ ~RequestRaises(probe.resp)

C11_TruncatesToMaxChars ==
  C11_Downloaded =>
    LET body == probe.resp.body.text
        mc == probe.max_chars
        text == probe.out.text
    IN  /\ probe.out.text_error = None
        /\ IsStr(text)
        /\ IF mc # None /\ mc.n > 0
             THEN /\ Len(text.s) = (IF mc.n < Len(body) THEN mc.n ELSE Len(body))
                  /\ \A i \in 1..Len(text.s) : CharAt(text.s, i) = CharAt(body, i)
             ELSE text.s = body

\* max_chars 2 on a body of 3 characters gives its first 2 characters.
C11_Witness ==
  /\ C11_Downloaded
  /\ probe.max_chars = JInt(2)
  /\ probe.resp.body.text = "abb"
  /\ probe.out.text = JStr("ab")

\* ------------------------------------------------------------------------
\* C12. In every search_gutenberg call there is one unit of work per cleaned
\* query, and each unit issues its blocking remote calls in sequence.  As
\* claimed: at most two calls per unit, one search and then optionally one
\* text fetch.  As the code does it: exactly one search, then at most one
\* text fetch per kept match, so at most 1 + n calls with n the clamped
\* max_results_per_title.
\* ------------------------------------------------------------------------
C12_Dispatched == IsList(titles) /\ pc \in { "gather", "returned", "raised" }

C12_OneUnitPerCleanedQuery ==
  C12_Dispatched =>
    /\ Len(tasks) = Len(C1_Cleaned)
    /\ \A i \in Tasks : tasks[i].q = C1_Cleaned[i]

\* The search comes first and is the only one; a fetch is made only once
\* the search has answered.
C12_SearchThenFetches(i) ==
  /\ tasks[i].searches <= 1
  /\ tasks[i].pc # "new" => tasks[i].searches = 1
  /\ tasks[i].downloads >= 1 => tasks[i].searches = 1 /\ Answered(i)

C12_AtMostTwoCallsAsClaimed ==
  /\ C12_OneUnitPerCleanedQuery
  /\ \A i \in Tasks :
       /\ C12_SearchThenFetches(i)
       /\ tasks[i].searches + tasks[i].downloads <= 2

C12_OneSearchThenFetchPerMatch ==
  /\ C12_OneUnitPerCleanedQuery
  /\ \A i \in Tasks :
       /\ C12_SearchThenFetches(i)
       /\ tasks[i].downloads <= C9_N
       /\ tasks[i].pc = "done" => tasks[i].downloads <= Len(tasks[i].match_dicts)

\* A unit that has finished after one search and two text fetches.
C12_Witness ==
  \E i \in Tasks :
    /\ tasks[i].pc = "done"
    /\ tasks[i].searches = 1
    /\ tasks[i].downloads = 2

====
